---- MODULE Spec2Model ----
(***************************************************************************)
(* Model of the renderer-side bridge of arc-electron:                      *)
(*   - ArcBase (src/scripts/main/arc-base.js): the debounce registry and   *)
(*     the IPC call correlator;                                            *)
(*   - ArcInit (src/app.js): the command router and the start-up sequence. *)
(*                                                                         *)
(* JavaScript arrays are modelled as sequences.  Indices returned by       *)
(* findIndex keep their JavaScript meaning (0-based, -1 for "not found"),  *)
(* and Splice keeps the meaning of Array.prototype.splice for a negative   *)
(* start index.                                                            *)
(***************************************************************************)
EXTENDS Integers, Sequences, FiniteSets, TLC

\* ------------------------------------------------------------------ bounds
\* Number of IPC calls issued in one run.
MaxCalls == 3
\* Number of debounce() calls in one run.
MaxSchedule == 3
\* Number of window-state-info messages in one run.
MaxInfo == 2
\* Number of window-state-info messages in a run in which commands arrive.
MaxInfoRouter == 1

\* ------------------------------------------------------------------ inputs
\* Ids a caller may pass to appendPromise when it chooses the id itself.
Ids == {1, 2}
\* Argument lists a reply may carry: none, one and two arguments.
ArgLists == {<<>>, <<"a">>, <<"a", "b">>}
\* Debouncer names and delays (in clock ticks).
Names == {"x", "y"}
Delays == {1, 2}
\* Command names that are not in the table of commandHandler().
UnknownCommands == {"unknown-command", "save"}
\* Request-action names that are not in the table of execRequestAction().
UnknownActions == {"unknown-action", "show-settings"}
\* Messages of the failures prefProxy.load() and the module import reject with.
Failures == {"cannot read", "cannot import"}
\* Start paths of window-state-info.
StartPaths ==
  {<<>>, <<"saved", "xyz">>,
   <<"file-protocol-action", "google-drive", "open", "abc123">>,
   <<"file-protocol-action", "google-drive", "delete", "abc123">>,
   <<"file-protocol-action", "dropbox", "open", "abc123">>}

VARIABLES
  \* ArcBase, call correlator
  ipcRequestId,   \* this._ipcRequestId
  callerId,       \* the id a caller holds from nextIpcRequestId() and has not
                  \* used yet (0: none)
  returnedIds,    \* history: every value nextIpcRequestId() has returned
  promises,       \* this._promises: sequence of [id, h], h the handle it settles
  handles,        \* the Promise objects appendPromise() returned, by creation order
  raised,         \* whether the last operation threw
  op,             \* the last operation: [kind, id, name, args]
  \* ArcBase, debounce registry
  debouncers,     \* this._debouncers: sequence of [name, id]
  timers,         \* live setTimeout timers: set of [id, name, task, due]
  now,            \* the clock
  calls,          \* history: every debounce() call, [name, delay, at, pending]
  invoked,        \* history: every task invocation, [task, at]
  cancelled,      \* history: tasks whose timer was cleared by cancelDebounce()
  \* ArcInit
  created,        \* this.created
  appCount,       \* number of <arc-electron id="app"> elements attached to the body
  initConfig,     \* this.initConfig: [startPath]
  nInfo,          \* number of window-state-info messages received
  pc,             \* where each _stateInfoHandler run is suspended
  stages,         \* history: the lifecycle states each run has entered, in order
  navState,       \* the entry history.pushState() added, <<>> when none
  loader,         \* the .loader element: "shown", "ending" (class end) or "removed"
  loaderTimers,   \* pending removeLoader() timers
  out             \* what the last operation did: handlers it called, messages it
                  \* sent across the boundary, whether it logged a warning

correlatorVars == <<ipcRequestId, callerId, returnedIds, promises, handles>>
debounceVars == <<debouncers, timers, now, calls, invoked, cancelled>>
lifecycleVars ==
  <<created, appCount, initConfig, nInfo, pc, stages, navState, loader, loaderTimers>>
appVars == <<lifecycleVars, out>>
vars == <<correlatorVars, raised, op, debounceVars, appVars>>

\* --------------------------------------------------------- JavaScript arrays
Max(a, b) == IF a > b THEN a ELSE b
Min(a, b) == IF a < b THEN a ELSE b

\* Array.prototype.splice(start, count) seen as the array left behind: a
\* negative start counts from the end of the array.
Splice(s, start, count) ==
  LET len == Len(s)
      from == IF start < 0 THEN Max(len + start, 0) ELSE Min(start, len)
      n == Min(Max(count, 0), len - from)
  IN  [i \in 1..(len - n) |-> IF i <= from THEN s[i] ELSE s[i + n]]

\* The record of an operation: its kind, and the id or the name it was called
\* with; for a command, the trailing arguments of the message.
Op(kind, id, name) == [kind |-> kind, id |-> id, name |-> name, args |-> <<>>]
OpCommand(action, args) == [kind |-> "command", id |-> 0, name |-> action, args |-> args]
OpRequestAction(action, args) ==
  [kind |-> "request-action", id |-> 0, name |-> action, args |-> args]

\* ------------------------------------------------------------ call correlator
NoValue == [kind |-> "none", items |-> <<>>]

\* A Promise as appendPromise() creates it.  nsettle counts the calls of its
\* resolve/reject functions; state and value are those of the first such call.
NewHandle(id) == [id |-> id, state |-> "pending", value |-> NoValue, nsettle |-> 0]

\* Always spreading the arguments, resolve(...args): the first argument, and
\* undefined when there is none.
PayloadSpread(args) ==
  IF Len(args) >= 1 THEN [kind |-> "single", items |-> <<args[1]>>]
  ELSE NoValue

\* What resolve/reject is called with: the argument itself when the reply
\* carries exactly one, the whole list otherwise.
Payload(args) ==
  IF Len(args) = 1 THEN [kind |-> "single", items |-> args]
  ELSE [kind |-> "list", items |-> args]

\* ++this._ipcRequestId: the counter after the call and the value returned.
PostIncrement(n) == [counter |-> n + 1, result |-> n]
PreIncrement(n) == [counter |-> n + 1, result |-> n + 1]

nextIpcRequestId ==
  /\ ipcRequestId < MaxCalls
  /\ LET r == PreIncrement(ipcRequestId)
     IN  /\ ipcRequestId' = r.counter
         /\ callerId' = r.result
         /\ returnedIds' = returnedIds \cup {r.result}
  /\ raised' = FALSE
  /\ op' = Op("nextId", 0, "")
  /\ UNCHANGED <<promises, handles, debounceVars, appVars>>

\* appendPromise(id) creates a Promise and pushes its resolve/reject pair under
\* id.  The id the caller held is used up.
appendPromise(id) ==
  /\ Len(handles) < MaxCalls
  /\ handles' = Append(handles, NewHandle(id))
  /\ promises' = Append(promises, [id |-> id, h |-> Len(handles) + 1])
  /\ callerId' = 0
  /\ raised' = FALSE
  /\ op' = Op("issue", id, "")
  /\ UNCHANGED <<ipcRequestId, returnedIds, debounceVars, appVars>>

\* A caller that registers the promise under the id it has just taken from
\* nextIpcRequestId().
IssueFresh ==
  /\ callerId # 0
  /\ appendPromise(callerId)

\* this._promises.findIndex((p) => p.id === id)
PromiseIndexAny(ps, id) == IF ps = <<>> THEN -1 ELSE 0
\* (0-based; -1 when no element has the id).
PromiseIndex(ps, id) ==
  IF \E i \in 1..Len(ps) : ps[i].id = id
  THEN (CHOOSE i \in 1..Len(ps) : ps[i].id = id /\ \A j \in 1..(i - 1) : ps[j].id # id) - 1
  ELSE -1

\* this._promises.splice(index, 1)
RemovePendingNone(ps, index) == ps
RemovePending(ps, index) == Splice(ps, index, 1)

\* promise.resolve(..) / promise.reject(..) on handle h.
Settle(hs, h, isError, value) ==
  [hs EXCEPT ![h] =
     [id |-> @.id,
      state |-> IF @.state = "pending"
                THEN (IF isError THEN "rejected" ELSE "resolved") ELSE @.state,
      value |-> IF @.state = "pending" THEN value ELSE @.value,
      nsettle |-> @.nsettle + 1]]

\* Without the "not found" test: this._promises[-1] is undefined, splice(-1, 1)
\* drops the last pending call, and calling resolve on undefined throws.
_ipcPromiseCallbackNoTest(id, isError, args) ==
  LET index == PromiseIndex(promises, id) IN
  /\ IF index = -1
     THEN /\ promises' = Splice(promises, index, 1)
          /\ handles' = handles
          /\ raised' = TRUE
     ELSE LET promise == promises[index + 1] IN
          /\ promises' = RemovePending(promises, index)
          /\ handles' = Settle(handles, promise.h, isError, Payload(args))
          /\ raised' = FALSE
  /\ op' = Op("complete", id, "")
  /\ UNCHANGED <<ipcRequestId, callerId, returnedIds, debounceVars, appVars>>

_ipcPromiseCallback(id, isError, args) ==
  LET index == PromiseIndex(promises, id) IN
  /\ IF index = -1
     THEN /\ raised' = TRUE
          /\ UNCHANGED <<promises, handles>>
     ELSE LET promise == promises[index + 1] IN
          /\ promises' = RemovePending(promises, index)
          /\ handles' = Settle(handles, promise.h, isError, Payload(args))
          /\ raised' = FALSE
  /\ op' = Op("complete", id, "")
  /\ UNCHANGED <<ipcRequestId, callerId, returnedIds, debounceVars, appVars>>

\* ---------------------------------------------------------- debounce registry
\* this._debouncers.findIndex((item) => item.name === name)
\* (0-based; -1 when no element has the name).
IndexOfName(ds, name) ==
  IF \E i \in 1..Len(ds) : ds[i].name = name
  THEN (CHOOSE i \in 1..Len(ds) :
          ds[i].name = name /\ \A j \in 1..(i - 1) : ds[j].name # name) - 1
  ELSE -1

_debounceIndex(name) == IndexOfName(debouncers, name)

\* History of a debounce(name, callback, time) call.  The callback of call
\* number c is task c; pending tells whether a debouncer of that name was
\* registered when the call was made.
LogCall(name, time) ==
  calls' = Append(calls, [name |-> name, delay |-> time, at |-> now,
                          pending |-> \E i \in 1..Len(debouncers) : debouncers[i].name = name])

\* clearTimeout(id)
ClearTimeout(id) == {t \in timers : t.id # id}

debounceNoCheck(name, time) ==
  LET task == Len(calls) + 1 IN
  /\ Len(calls) < MaxSchedule
  /\ LogCall(name, time)
  /\ timers' = timers \cup {[id |-> task, name |-> name, task |-> task, due |-> now + time]}
  /\ debouncers' = Append(debouncers, [name |-> name, id |-> task])
  /\ raised' = FALSE
  /\ op' = Op("debounce", 0, name)
  /\ UNCHANGED <<appVars, correlatorVars, now, invoked, cancelled>>

\* A classic debounce: a second call replaces the pending one and restarts
\* the delay.
debounceRestart(name, time) ==
  LET task == Len(calls) + 1
      index == _debounceIndex(name)
      kept == IF index = -1 THEN debouncers ELSE Splice(debouncers, index, 1)
      live == IF index = -1 THEN timers ELSE ClearTimeout(debouncers[index + 1].id)
  IN
  /\ Len(calls) < MaxSchedule
  /\ LogCall(name, time)
  /\ timers' = live \cup {[id |-> task, name |-> name, task |-> task, due |-> now + time]}
  /\ debouncers' = Append(kept, [name |-> name, id |-> task])
  /\ raised' = FALSE
  /\ op' = Op("debounce", 0, name)
  /\ UNCHANGED <<appVars, correlatorVars, now, invoked, cancelled>>

debounce(name, time) ==
  LET task == Len(calls) + 1
      index == _debounceIndex(name)
  IN
  /\ Len(calls) < MaxSchedule
  /\ LogCall(name, time)
  /\ IF index # -1
     THEN UNCHANGED <<timers, debouncers>>
     ELSE /\ timers' = timers \cup {[id |-> task, name |-> name, task |-> task, due |-> now + time]}
          /\ debouncers' = Append(debouncers, [name |-> name, id |-> task])
  /\ raised' = FALSE
  /\ op' = Op("debounce", 0, name)
  /\ UNCHANGED <<appVars, correlatorVars, now, invoked, cancelled>>

\* this._debouncers.shift() in place of the splice at the index of the name.
TimerFireShift(t) ==
  /\ t \in timers
  /\ t.due = now
  /\ timers' = timers \ {t}
  /\ debouncers' = Splice(debouncers, 0, 1)
  /\ invoked' = Append(invoked, [task |-> t.task, at |-> now])
  /\ raised' = FALSE
  /\ op' = Op("fire", t.task, t.name)
  /\ UNCHANGED <<appVars, correlatorVars, now, calls, cancelled>>

\* The setTimeout callback of debounce(): timer t expires.
TimerFire(t) ==
  LET index == _debounceIndex(t.name) IN
  /\ t \in timers
  /\ t.due = now
  /\ timers' = timers \ {t}
  /\ debouncers' = Splice(debouncers, index, 1)
  /\ invoked' = Append(invoked, [task |-> t.task, at |-> now])
  /\ raised' = FALSE
  /\ op' = Op("fire", t.task, t.name)
  /\ UNCHANGED <<appVars, correlatorVars, now, calls, cancelled>>

\* The task called before the entry is spliced out: the debounce() call of the
\* task finds the entry of its own name and returns.
TimerFireTaskFirst(t, time) ==
  LET again == _debounceIndex(t.name)
      index == _debounceIndex(t.name)
  IN
  /\ t \in timers
  /\ t.due = now
  /\ Len(calls) < MaxSchedule
  /\ invoked' = Append(invoked, [task |-> t.task, at |-> now])
  /\ calls' = Append(calls, [name |-> t.name, delay |-> time, at |-> now,
                             pending |-> again # -1])
  /\ timers' = timers \ {t}
  /\ debouncers' = Splice(debouncers, index, 1)
  /\ raised' = FALSE
  /\ op' = Op("fire-reschedule", t.task, t.name)
  /\ UNCHANGED <<appVars, correlatorVars, now, cancelled>>

\* The setTimeout callback of debounce() for a task that calls
\* this.debounce(name, task, time) with the name it was scheduled under: the
\* entry is spliced out, then callback.call(this) runs the task, whose
\* debounce() call looks the name up in what the splice has left.
TimerFireRescheduling(t, time) ==
  LET index == _debounceIndex(t.name)
      removed == Splice(debouncers, index, 1)
      again == IndexOfName(removed, t.name)
      task == Len(calls) + 1
  IN
  /\ t \in timers
  /\ t.due = now
  /\ Len(calls) < MaxSchedule
  /\ invoked' = Append(invoked, [task |-> t.task, at |-> now])
  /\ calls' = Append(calls, [name |-> t.name, delay |-> time, at |-> now,
                             pending |-> again # -1])
  /\ IF again # -1
     THEN /\ timers' = timers \ {t}
          /\ debouncers' = removed
     ELSE /\ timers' = (timers \ {t}) \cup
                         {[id |-> task, name |-> t.name, task |-> task, due |-> now + time]}
          /\ debouncers' = Append(removed, [name |-> t.name, id |-> task])
  /\ raised' = FALSE
  /\ op' = Op("fire-reschedule", t.task, t.name)
  /\ UNCHANGED <<appVars, correlatorVars, now, cancelled>>

\* Without the clearTimeout() call.
cancelDebounceNoClear(name) ==
  LET index == _debounceIndex(name) IN
  /\ IF index = -1
     THEN UNCHANGED <<debouncers, timers, cancelled>>
     ELSE LET d == debouncers[index + 1] IN
          /\ timers' = timers
          /\ cancelled' = cancelled \cup {d.id}
          /\ debouncers' = Splice(debouncers, index, 1)
  /\ raised' = FALSE
  /\ op' = Op("cancel", 0, name)
  /\ UNCHANGED <<appVars, correlatorVars, now, calls, invoked>>

\* Without the early return: this._debouncers[-1] is undefined, and reading
\* its id throws.
cancelDebounceNoReturn(name) ==
  LET index == _debounceIndex(name) IN
  /\ IF index = -1
     THEN /\ raised' = TRUE
          /\ UNCHANGED <<debouncers, timers, cancelled>>
     ELSE LET d == debouncers[index + 1] IN
          /\ timers' = ClearTimeout(d.id)
          /\ cancelled' = cancelled \cup {d.id}
          /\ debouncers' = Splice(debouncers, index, 1)
          /\ raised' = FALSE
  /\ op' = Op("cancel", 0, name)
  /\ UNCHANGED <<appVars, correlatorVars, now, calls, invoked>>

cancelDebounce(name) ==
  LET index == _debounceIndex(name) IN
  /\ IF index = -1
     THEN UNCHANGED <<debouncers, timers, cancelled>>
     ELSE LET d == debouncers[index + 1] IN
          /\ timers' = ClearTimeout(d.id)
          /\ cancelled' = cancelled \cup {d.id}
          /\ debouncers' = Splice(debouncers, index, 1)
  /\ raised' = FALSE
  /\ op' = Op("cancel", 0, name)
  /\ UNCHANGED <<appVars, correlatorVars, now, calls, invoked>>

\* Time passes while a timer is waiting; a timer expires exactly when it is due.
Tick ==
  /\ timers # {}
  /\ \A t \in timers : t.due > now
  /\ now' = now + 1
  /\ raised' = FALSE
  /\ op' = Op("tick", 0, "")
  /\ UNCHANGED <<appVars, correlatorVars, debouncers, timers, calls, invoked, cancelled>>

\* ------------------------------------------------------------------- ArcInit
\* Values are strings.  A start path is held as its '/'-separated parts (what
\* startPath.split('/') returns), the empty string as <<>>.
Undefined == "undefined"
\* The message of an Error the code builds and throws itself, as the parts it
\* is concatenated from; NoError when it throws none of its own.
NoError == <<>>
Quiet == [called |-> <<>>, sent |-> <<>>, warned |-> FALSE, error |-> NoError]
Call(handler, args) == [handler |-> handler, args |-> args]
Msg(topic, args) == [topic |-> topic, args |-> args]

\* args[i] of a JavaScript array (0-based): undefined past its end.
ArgAt(args, i) == IF i < Len(args) THEN args[i + 1] ELSE Undefined

\* get app(): document.getElementById('app') is null until an element is attached.
AppIsNull == appCount = 0

\* The cases of the switch in commandHandler(): the object the handler is a
\* method of, the handler, and the indices of args it is called with.
CommandNames ==
  {"show-settings", "about", "open-license", "import-data", "export-data",
   "open-saved", "open-history", "open-drive", "open-messages",
   "login-external-webservice", "open-cookie-manager", "open-hosts-editor",
   "get-tabs-count", "activate-tab", "get-request-data", "open-themes",
   "open-requests-workspace", "open-web-socket", "popup-menu",
   "process-external-file", "open-onboarding", "open-workspace-details",
   "export-workspace"}

OnApp(handler) == [on |-> "app", handler |-> handler, params |-> <<>>]
OnThis(handler, params) == [on |-> "this", handler |-> handler, params |-> params]

CommandTarget(action) ==
  CASE action = "show-settings" -> OnApp("openSettings")
    [] action = "about" -> OnApp("openAbout")
    [] action = "open-license" -> OnApp("openLicense")
    [] action = "import-data" -> OnApp("openImport")
    [] action = "export-data" -> OnApp("openExport")
    [] action = "open-saved" -> OnApp("openSaved")
    [] action = "open-history" -> OnApp("openHistory")
    [] action = "open-drive" -> OnApp("openDrivePicker")
    [] action = "open-messages" -> OnApp("openInfoCenter")
    [] action = "login-external-webservice" -> OnApp("openWebUrl")
    [] action = "open-cookie-manager" -> OnApp("openCookieManager")
    [] action = "open-hosts-editor" -> OnApp("openHostRules")
    [] action = "get-tabs-count" -> OnThis("sendTabsCount", <<0>>)
    [] action = "activate-tab" -> OnThis("activateTab", <<0, 1>>)
    [] action = "get-request-data" -> OnThis("getRequestData", <<0, 1>>)
    [] action = "open-themes" -> OnApp("openThemesPanel")
    [] action = "open-requests-workspace" -> OnApp("openWorkspace")
    [] action = "open-web-socket" -> OnApp("openWebSocket")
    [] action = "popup-menu" -> OnThis("_toggleMenuWindow", <<>>)
    [] action = "process-external-file" -> OnThis("processExternalFile", <<0>>)
    [] action = "open-onboarding" -> OnApp("openOnboarding")
    [] action = "open-workspace-details" -> OnApp("openWorkspaceDetails")
    [] action = "export-workspace" -> OnThis("exportWorkspace", <<>>)

\* The arguments a case passes on: args[params[1]], args[params[2]], ..
ForwardShifted(args, params) == [i \in 1..Len(params) |-> ArgAt(args, params[i] + 1)]
Forward(args, params) == [i \in 1..Len(params) |-> ArgAt(args, params[i])]

\* The synchronous part of the handlers defined in ArcInit itself, called with
\* a: the messages sent back and whether it throws.  sendTabsCount, activateTab,
\* getRequestData and _toggleMenuWindow read this.app at once;
\* processExternalFile and exportWorkspace are async functions, which never
\* throw to their caller.  The state of the application element other than its
\* existence is not modelled: the tab count and the request are the symbolic
\* values "cnt" and "request".
RunLocal(handler, a) ==
  CASE handler = "sendTabsCount" ->
         IF AppIsNull THEN [sent |-> <<>>, raised |-> TRUE]
         ELSE [sent |-> <<Msg("current-tabs-count", <<a[1], "false", "cnt">>)>>, raised |-> FALSE]
    [] handler = "activateTab" ->
         IF AppIsNull THEN [sent |-> <<>>, raised |-> TRUE]
         ELSE [sent |-> <<Msg("tab-activated", <<a[1], "false">>)>>, raised |-> FALSE]
    [] handler = "getRequestData" ->
         IF AppIsNull THEN [sent |-> <<>>, raised |-> TRUE]
         ELSE [sent |-> <<Msg("request-data", <<a[1], "false", "request">>)>>, raised |-> FALSE]
    [] handler = "_toggleMenuWindow" -> [sent |-> <<>>, raised |-> AppIsNull]
    [] OTHER -> [sent |-> <<>>, raised |-> FALSE]

\* A case of the switch in commandHandler(): app.<handler>() throws when
\* this.app is null, before any handler runs.
DispatchKnown(action, args) ==
  LET t == CommandTarget(action) IN
  IF t.on = "app"
  THEN IF AppIsNull
       THEN [out |-> Quiet, raised |-> TRUE]
       ELSE [out |-> [called |-> <<Call(t.handler, <<>>)>>, sent |-> <<>>,
                      warned |-> FALSE, error |-> NoError],
             raised |-> FALSE]
  ELSE LET a == Forward(args, t.params)
           r == RunLocal(t.handler, a)
       IN  [out |-> [called |-> <<Call(t.handler, a)>>, sent |-> r.sent,
                     warned |-> FALSE, error |-> NoError],
            raised |-> r.raised]

\* With a default case that throws, as the one of execRequestAction() does.
DispatchThrowing(action, args) ==
  IF action \notin CommandNames
  THEN [out |-> Quiet, raised |-> TRUE]
  ELSE DispatchKnown(action, args)

\* commandHandler(e, action, ...args): what it does and whether it throws.  The
\* default case logs a warning.
Dispatch(action, args) ==
  IF action \notin CommandNames
  THEN [out |-> [called |-> <<>>, sent |-> <<>>, warned |-> TRUE, error |-> NoError], raised |-> FALSE]
  ELSE DispatchKnown(action, args)

commandHandler(action, args) ==
  LET d == Dispatch(action, args) IN
  /\ out' = d.out
  /\ raised' = d.raised
  /\ op' = OpCommand(action, args)
  /\ UNCHANGED <<lifecycleVars, correlatorVars, debounceVars>>

\* The cases of the switch in execRequestAction(): the method of the
\* application element a case calls and what it calls it with.  The object
\* literal {source: 'shortcut'} is the value "source:shortcut".
RequestActions ==
  {"save", "save-as", "new-tab", "send-current", "update-request", "close-tab"}

RequestTarget(action, args) ==
  CASE action = "save" -> Call("saveOpened", <<"source:shortcut">>)
    [] action = "save-as" -> Call("saveOpened", <<>>)
    [] action = "new-tab" -> Call("newRequestTab", <<>>)
    [] action = "send-current" -> Call("sendCurrentTab", <<>>)
    [] action = "update-request" ->
         Call("updateRequestTab", <<ArgAt(args, 0), ArgAt(args, 1)>>)
    [] action = "close-tab" -> Call("closeActiveTab", <<>>)

\* execRequestAction(e, action, ...args): what it does and whether it throws.
\* The default case throws new Error('Unrecognized action ' + action); a case
\* of the switch throws when this.app is null, before any handler runs.
RequestDispatch(action, args) ==
  IF action \notin RequestActions
  THEN [out |-> [called |-> <<>>, sent |-> <<>>, warned |-> FALSE,
                 error |-> <<"Unrecognized action ", action>>],
        raised |-> TRUE]
  ELSE IF AppIsNull
  THEN [out |-> Quiet, raised |-> TRUE]
  ELSE [out |-> [called |-> <<RequestTarget(action, args)>>, sent |-> <<>>,
                 warned |-> FALSE, error |-> NoError],
        raised |-> FALSE]

execRequestAction(action, args) ==
  LET d == RequestDispatch(action, args) IN
  /\ out' = d.out
  /\ raised' = d.raised
  /\ op' = OpRequestAction(action, args)
  /\ UNCHANGED <<lifecycleVars, correlatorVars, debounceVars>>

\* removeLoader(): nothing without a .loader element, else class 'end' and a
\* timer that removes the element.
RemoveLoader(run) ==
  IF run /\ loader # "removed"
  THEN loader' = "ending" /\ loaderTimers' = loaderTimers + 1
  ELSE UNCHANGED <<loader, loaderTimers>>

\* The timer of removeLoader(): loader.parentNode is null when an earlier timer
\* has removed the element already, and removeChild on it throws.
LoaderTimerFire ==
  /\ loaderTimers > 0
  /\ loaderTimers' = loaderTimers - 1
  /\ loader' = "removed"
  /\ raised' = (loader = "removed")
  /\ out' = Quiet
  /\ op' = Op("loader-timer", 0, "")
  /\ UNCHANGED <<created, appCount, initConfig, nInfo, pc, stages, navState,
                 correlatorVars, debounceVars>>

\* A _stateInfoHandler run h ends in a rejected promise.
Fail(h) == pc' = [pc EXCEPT ![h] = "failed"] /\ UNCHANGED stages

\* Run h of _stateInfoHandler() enters lifecycle states: ConfigReceived when it
\* stores the configuration, Built when initApp() has returned and upgradeApp()
\* starts, PathResolved when upgradeApp() has returned and processInitialPath()
\* starts, Ready when that has returned and removeLoader() runs.
Enter(h, states) == stages' = [stages EXCEPT ![h] = @ \o states]

\* Without the test of parts[0]: every start path is an in-app route.
PathOutcomeRouteOnly(startPath) ==
  IF startPath = <<>> THEN [kind |-> "none", called |-> <<>>]
  ELSE [kind |-> "push", called |-> <<>>]

\* processInitialPath() up to its first await, handleDefaultProtocolActon() and
\* handleGoogleDriveAction() included: what the start path asks for.
PathOutcome(startPath) ==
  IF startPath = <<>> THEN [kind |-> "none", called |-> <<>>]
  ELSE IF startPath[1] = "file-protocol-action"
  THEN LET a == Tail(startPath)
           source == ArgAt(a, 0)
           action == ArgAt(a, 1)
           id == ArgAt(a, 2)
       IN  IF source = "google-drive"
           THEN IF action # "open"
                THEN [kind |-> "warn",
                      called |-> <<Call("handleGoogleDriveAction", <<action, id>>)>>]
                ELSE [kind |-> "drive",
                      called |-> <<Call("handleGoogleDriveAction", <<action, id>>),
                                   Call("driveBridge.getFile", <<id>>)>>]
           ELSE [kind |-> "warn", called |-> <<>>]
  ELSE [kind |-> "push", called |-> <<>>]

\* Run h goes on from processInitialPath(): it waits for the Drive file, or
\* goes through removeLoader() to its end.
ProcessInitialPath(h) ==
  LET r == PathOutcome(initConfig.startPath) IN
  /\ pc' = [pc EXCEPT ![h] = IF r.kind = "drive" THEN "drive" ELSE "done"]
  /\ Enter(h, IF r.kind = "drive" THEN <<"PathResolved">> ELSE <<"PathResolved", "Ready">>)
  /\ navState' = IF r.kind = "push" THEN <<"#">> \o initConfig.startPath ELSE navState
  /\ RemoveLoader(r.kind # "drive")
  /\ out' = [called |-> r.called, sent |-> <<>>, warned |-> r.kind = "warn", error |-> NoError]
  /\ raised' = FALSE

\* window-state-info arrives: _stateInfoHandler() and initApp() up to the await
\* of prefProxy.load().
StateInfo(info) ==
  /\ nInfo < MaxInfo
  /\ nInfo' = nInfo + 1
  /\ initConfig' = info
  /\ pc' = [pc EXCEPT ![nInfo + 1] = "load"]
  /\ Enter(nInfo + 1, <<"ConfigReceived">>)
  /\ out' = Quiet
  /\ raised' = FALSE
  /\ op' = Op("state-info", nInfo + 1, "")
  /\ UNCHANGED <<created, appCount, navState, loader, loaderTimers,
                 correlatorVars, debounceVars>>

\* Rethrowing without reporting.
FatalErrorUnreported(h, e) ==
  /\ Fail(h)
  /\ out' = Quiet
  /\ raised' = TRUE

\* reportFatalError(e); throw e, e an Error with message e
FatalError(h, e) ==
  /\ Fail(h)
  /\ out' = [called |-> <<>>, sent |-> <<Msg("fatal-error", <<e>>)>>, warned |-> FALSE,
             error |-> NoError]
  /\ raised' = TRUE

\* prefProxy.load() of initApp() settles: on success _createApp() runs up to
\* its await of the module import, or returns at once when this.created is set
\* and initApp() goes on to the theme.
LoadDone(h, ok, e) ==
  /\ pc[h] = "load"
  /\ IF ~ok
     THEN FatalError(h, e)
     ELSE /\ pc' = [pc EXCEPT ![h] = IF created THEN "theme" ELSE "import"]
          /\ UNCHANGED stages
          /\ out' = Quiet
          /\ raised' = FALSE
  /\ op' = Op("load-done", h, IF ok THEN "" ELSE e)
  /\ UNCHANGED <<created, appCount, initConfig, nInfo, navState, loader, loaderTimers,
                 correlatorVars, debounceVars>>

\* The module import of _createApp() settles: the element is created, set up
\* and attached, this.created is set, and initApp() goes on to the theme.
ImportDone(h, ok, e) ==
  /\ pc[h] = "import"
  /\ IF ~ok
     THEN FatalError(h, e) /\ UNCHANGED <<created, appCount>>
     ELSE /\ appCount' = appCount + 1
          /\ created' = TRUE
          /\ pc' = [pc EXCEPT ![h] = "theme"]
          /\ UNCHANGED stages
          /\ out' = Quiet
          /\ raised' = FALSE
  /\ op' = Op("import-done", h, IF ok THEN "" ELSE e)
  /\ UNCHANGED <<initConfig, nInfo, navState, loader, loaderTimers,
                 correlatorVars, debounceVars>>

\* themeManager.loadTheme() settles: a failure is logged, and either way
\* upgradeApp() starts and awaits prefProxy.load().
ThemeDone(h, ok) ==
  /\ pc[h] = "theme"
  /\ pc' = [pc EXCEPT ![h] = "upLoad"]
  /\ Enter(h, <<"Built">>)
  /\ out' = Quiet
  /\ raised' = FALSE
  /\ op' = Op("theme-done", h, IF ok THEN "" ELSE "failed")
  /\ UNCHANGED <<created, appCount, initConfig, nInfo, navState, loader, loaderTimers,
                 correlatorVars, debounceVars>>

\* prefProxy.load() of upgradeApp() settles: with a failure, with no upgrade to
\* apply, or with some, which inst.upgrade() then applies.
UpgradeLoadDone(h, result) ==
  /\ pc[h] = "upLoad"
  /\ CASE result = "fail" ->
            /\ Fail(h) /\ out' = Quiet /\ raised' = TRUE
            /\ UNCHANGED <<navState, loader, loaderTimers>>
       [] result = "some" ->
            /\ pc' = [pc EXCEPT ![h] = "upgrade"] /\ UNCHANGED stages
            /\ out' = Quiet /\ raised' = FALSE
            /\ UNCHANGED <<navState, loader, loaderTimers>>
       [] result = "none" -> ProcessInitialPath(h)
  /\ op' = Op("upgrade-load-done", h, result)
  /\ UNCHANGED <<created, appCount, initConfig, nInfo, correlatorVars, debounceVars>>

\* inst.upgrade() settles.
UpgradeDone(h, ok) ==
  /\ pc[h] = "upgrade"
  /\ IF ~ok
     THEN /\ Fail(h) /\ out' = Quiet /\ raised' = TRUE
          /\ UNCHANGED <<navState, loader, loaderTimers>>
     ELSE ProcessInitialPath(h)
  /\ op' = Op("upgrade-done", h, IF ok THEN "" ELSE "failed")
  /\ UNCHANGED <<created, appCount, initConfig, nInfo, correlatorVars, debounceVars>>

\* driveBridge.getFile() settles: with JSON text, with text that does not
\* parse, with no data, or with a failure.  Only the first goes on.
DriveDone(h, result) ==
  /\ pc[h] = "drive"
  /\ IF result = "json"
     THEN /\ pc' = [pc EXCEPT ![h] = "done"]
          /\ Enter(h, <<"Ready">>)
          /\ RemoveLoader(TRUE)
          /\ out' = [called |-> <<Call("import-process-data", <<"data">>)>>,
                     sent |-> <<>>, warned |-> FALSE, error |-> NoError]
          /\ raised' = FALSE
     ELSE /\ Fail(h)
          /\ UNCHANGED <<loader, loaderTimers>>
          /\ out' = [called |-> IF result = "reject" THEN <<>>
                                ELSE <<Call("notifyError", <<"message">>)>>,
                     sent |-> <<>>, warned |-> result = "badjson", error |-> NoError]
          /\ raised' = TRUE
  /\ op' = Op("drive-done", h, result)
  /\ UNCHANGED <<created, appCount, initConfig, nInfo, navState, correlatorVars, debounceVars>>

\* ------------------------------------------------------------ specifications
Init ==
  /\ ipcRequestId = 0
  /\ callerId = 0
  /\ returnedIds = {}
  /\ promises = <<>>
  /\ handles = <<>>
  /\ raised = FALSE
  /\ op = Op("none", 0, "")
  /\ debouncers = <<>>
  /\ timers = {}
  /\ now = 0
  /\ calls = <<>>
  /\ invoked = <<>>
  /\ cancelled = {}
  /\ created = FALSE
  /\ appCount = 0
  /\ initConfig = [startPath |-> <<>>]
  /\ nInfo = 0
  /\ pc = [h \in 1..MaxInfo |-> "idle"]
  /\ stages = [h \in 1..MaxInfo |-> <<>>]
  /\ navState = <<>>
  /\ loader = "shown"
  /\ loaderTimers = 0
  /\ out = Quiet

\* The correlator driven by callers that choose the ids themselves.
NextCorrelator ==
  \/ \E id \in Ids : appendPromise(id)
  \/ \E id \in Ids, isError \in BOOLEAN, args \in ArgLists :
        _ipcPromiseCallback(id, isError, args)
SpecCorrelator == Init /\ [][NextCorrelator]_vars

\* The correlator driven by callers that take every id from nextIpcRequestId().
NextFreshIds ==
  \/ nextIpcRequestId
  \/ IssueFresh
  \/ \E id \in 1..MaxCalls, isError \in BOOLEAN, args \in ArgLists :
        _ipcPromiseCallback(id, isError, args)
SpecFreshIds == Init /\ [][NextFreshIds]_vars

NextDebounce ==
  \/ \E name \in Names, time \in Delays : debounce(name, time)
  \/ \E name \in Names : cancelDebounce(name)
  \/ \E t \in timers : TimerFire(t)
  \/ Tick
SpecDebounce == Init /\ [][NextDebounce]_vars

\* The debounce registry with tasks that schedule themselves again.
NextReentrant ==
  \/ NextDebounce
  \/ \E t \in timers, time \in Delays : TimerFireRescheduling(t, time)
SpecReentrant == Init /\ [][NextReentrant]_vars

\* The start-up sequence of ArcInit and the commands that arrive meanwhile.
NextLifecycle ==
  \/ \E path \in StartPaths : StateInfo([startPath |-> path])
  \/ \E h \in 1..MaxInfo, ok \in BOOLEAN, e \in Failures : LoadDone(h, ok, e)
  \/ \E h \in 1..MaxInfo, ok \in BOOLEAN, e \in Failures : ImportDone(h, ok, e)
  \/ \E h \in 1..MaxInfo, ok \in BOOLEAN : ThemeDone(h, ok)
  \/ \E h \in 1..MaxInfo, result \in {"fail", "some", "none"} : UpgradeLoadDone(h, result)
  \/ \E h \in 1..MaxInfo, ok \in BOOLEAN : UpgradeDone(h, ok)
  \/ \E h \in 1..MaxInfo, result \in {"json", "badjson", "empty", "reject"} :
        DriveDone(h, result)
  \/ LoaderTimerFire
SpecLifecycle == Init /\ [][NextLifecycle]_vars

\* The command router: commands arrive at any point of a start-up sequence
\* whose start path is an in-app route.
NextRouter ==
  \/ nInfo < MaxInfoRouter /\ StateInfo([startPath |-> <<"saved", "xyz">>])
  \/ \E h \in 1..MaxInfo, ok \in BOOLEAN, e \in Failures : LoadDone(h, ok, e)
  \/ \E h \in 1..MaxInfo, ok \in BOOLEAN, e \in Failures : ImportDone(h, ok, e)
  \/ \E h \in 1..MaxInfo, ok \in BOOLEAN : ThemeDone(h, ok)
  \/ \E h \in 1..MaxInfo, result \in {"fail", "some", "none"} : UpgradeLoadDone(h, result)
  \/ \E h \in 1..MaxInfo, ok \in BOOLEAN : UpgradeDone(h, ok)
  \/ LoaderTimerFire
  \/ \E action \in CommandNames \cup UnknownCommands, args \in ArgLists :
        commandHandler(action, args)
  \/ \E action \in RequestActions \cup UnknownActions, args \in ArgLists :
        execRequestAction(action, args)
SpecRouter == Init /\ [][NextRouter]_vars

Next ==
  NextCorrelator \/ NextFreshIds \/ NextReentrant \/ NextLifecycle \/ NextRouter
Spec == Init /\ [][Next]_vars

\* -------------------------------------------------------------------- claims
HandleIds == 1..Len(handles)
PendingIds == {promises[i].id : i \in 1..Len(promises)}
Settled(h) == handles[h].state # "pending"

\* C1: whatever the sequence of issue(id) and complete(id, isError, args)
\* calls, the resolve/reject functions of a handle are called at most once in
\* all (so never one of each): a handle has a PendingCall exactly as long as
\* none was called, a complete that finds a PendingCall removes that one entry
\* and settles that one handle, and no later complete changes a settled handle.
C1_SettledAtMostOnce ==
  /\ [](\A h \in HandleIds :
          /\ handles[h].nsettle <= 1
          /\ Settled(h) <=> handles[h].nsettle = 1
          /\ Cardinality({i \in 1..Len(promises) : promises[i].h = h})
               = (IF Settled(h) THEN 0 ELSE 1))
  /\ [][/\ \A h \in HandleIds : Settled(h) => handles'[h] = handles[h]
        /\ op'.kind = "complete" /\ op'.id \in PendingIds =>
             /\ Len(promises') = Len(promises) - 1
             /\ Cardinality({h \in HandleIds : handles'[h] # handles[h]}) = 1]_vars

\* C1 witness: every issued handle is settled, some resolved and some rejected,
\* and a further complete tagged with an id that was issued and completed
\* before has just found no PendingCall.
C1_Witness ==
  /\ op.kind = "complete" /\ raised
  /\ \E h \in HandleIds : handles[h].id = op.id
  /\ \A h \in HandleIds : handles[h].nsettle = 1
  /\ {handles[h].state : h \in HandleIds} = {"resolved", "rejected"}

\* C2: a complete(id, isError, args) call settles only a handle issued under
\* that id, with the call's own flag and payload: rejected when isError and
\* resolved otherwise, with the one argument when args holds exactly one and
\* with the whole ordered list otherwise; this for any order of the replies.
C2_SettlesWithOwnReply ==
  [][\A id \in 1..MaxCalls, isError \in BOOLEAN, args \in ArgLists :
       _ipcPromiseCallback(id, isError, args) =>
         \A h \in HandleIds :
           handles'[h] # handles[h] =>
             /\ handles[h].id = id
             /\ handles'[h].state = (IF isError THEN "rejected" ELSE "resolved")
             /\ handles'[h].value.items = args
             /\ handles'[h].value.kind = (IF Len(args) = 1 THEN "single" ELSE "list")]_vars

\* C2 witness: three calls were issued under ids 1, 2, 3 and the replies came
\* out of order: the call of id 3 is rejected with a two-argument list and the
\* call of id 1 is resolved with a single value while the call of id 2 is
\* still pending.
C2_Witness ==
  /\ Len(handles) = 3
  /\ \A h \in HandleIds : handles[h].id = h
  /\ handles[3].state = "rejected" /\ handles[3].value = [kind |-> "list", items |-> <<"a", "b">>]
  /\ handles[1].state = "resolved" /\ handles[1].value = [kind |-> "single", items |-> <<"a">>]
  /\ handles[2].state = "pending"
  /\ op = Op("complete", 1, "")

\* C3: a complete tagged with an id that has no PendingCall (never issued, or
\* completed before) throws, leaves the pending calls as they were and settles
\* no handle.
C3_UnknownIdRaises ==
  [][op'.kind = "complete" /\ op'.id \notin PendingIds =>
       /\ raised'
       /\ promises' = promises
       /\ handles' = handles]_vars

\* C3 witness: a complete has just thrown for an id that was completed before,
\* while another call is still pending.
C3_Witness ==
  /\ op.kind = "complete" /\ raised
  /\ promises # <<>>
  /\ \E h \in HandleIds : handles[h].id = op.id /\ Settled(h)

\* C4: nextIpcRequestId() returns 1 the first time and then always a value
\* greater than every value it returned before; and when every appendPromise
\* uses an id just taken from it, no two pending calls have the same id.
C4_FreshIdsAreUnique ==
  /\ [](\A i, j \in 1..Len(promises) : promises[i].id = promises[j].id => i = j)
  /\ [][op'.kind = "nextId" =>
          /\ returnedIds = {} => callerId' = 1
          /\ \A r \in returnedIds : callerId' > r]_vars

\* C4 witness: three ids were handed out and the three calls issued under them
\* are pending together.
C4_Witness ==
  /\ returnedIds = {1, 2, 3}
  /\ Len(promises) = 3
  /\ {promises[i].id : i \in 1..3} = {1, 2, 3}

Registered(name) == \E i \in 1..Len(debouncers) : debouncers[i].name = name
InvokedTasks == {invoked[i].task : i \in 1..Len(invoked)}
Due(c) == calls[c].at + calls[c].delay

\* C5: a debounce(name, ..) call made while a debouncer of that name is
\* registered has no effect: its task is never invoked; the task of the call
\* that registered the debouncer is invoked exactly once (unless cancelled),
\* and that when its own delay, counted from its own call, has elapsed.
C5_DuplicateScheduleIgnored ==
  /\ \A i \in 1..Len(invoked) :
        /\ ~calls[invoked[i].task].pending
        /\ invoked[i].at = Due(invoked[i].task)
        /\ \A j \in 1..Len(invoked) : invoked[j].task = invoked[i].task => j = i
  /\ \A c \in 1..Len(calls) :
        ~calls[c].pending /\ c \notin cancelled /\ now > Due(c) => c \in InvokedTasks

\* C5 witness: name was scheduled, scheduled again later with the first call
\* still pending, the first task ran at the first call's due time, and the
\* clock has reached the time at which a restarted delay would have ended.
C5_Witness ==
  \E c1, c2 \in 1..Len(calls) :
    /\ calls[c1].name = calls[c2].name
    /\ ~calls[c1].pending /\ calls[c2].pending
    /\ calls[c1].at < calls[c2].at /\ calls[c2].at < Due(c1)
    /\ \E i \in 1..Len(invoked) : invoked[i] = [task |-> c1, at |-> Due(c1)]
    /\ now >= Due(c2) /\ Due(c2) > Due(c1)
    /\ c2 \notin InvokedTasks

\* C6: the debouncer table never holds two entries of the same name.
C6_OneDebouncerPerName ==
  \A i, j \in 1..Len(debouncers) : debouncers[i].name = debouncers[j].name => i = j

\* C6 witness: two names are registered and a duplicate schedule was refused.
C6_Witness ==
  /\ Len(debouncers) = 2
  /\ \E c \in 1..Len(calls) : calls[c].pending

\* C7: cancelDebounce(name) leaves no debouncer and no timer of that name, the
\* task of a cancelled debouncer is never invoked, and a debounce(name, ..)
\* call made when the name is not registered (so also after a cancel) registers
\* a new debouncer whose timer runs the new task after the new delay.
C7_CancelStopsTask ==
  /\ [](InvokedTasks \cap cancelled = {})
  /\ [][op'.kind = "cancel" =>
          /\ \A i \in 1..Len(debouncers') : debouncers'[i].name # op'.name
          /\ \A t \in timers' : t.name # op'.name]_vars
  /\ [][op'.kind = "debounce" /\ ~Registered(op'.name) =>
          LET c == Len(calls') IN
          /\ debouncers' = Append(debouncers, [name |-> op'.name, id |-> c])
          /\ timers' = timers \cup {[id |-> c, name |-> op'.name, task |-> c, 
                                   due |-> calls'[c].at + calls'[c].delay]}]_vars

\* C7 witness: a pending debouncer was cancelled, its name was scheduled again
\* and the new task has run, the cancelled one has not.
C7_Witness ==
  \E c \in cancelled, d \in InvokedTasks :
    /\ calls[d].name = calls[c].name
    /\ d > c
    /\ now > Due(c)

\* C8: cancelDebounce(name) with no debouncer of that name throws nothing and
\* changes neither the table nor the timers, so every other pending debouncer
\* keeps its timer.
C8_CancelAbsentIsNoOp ==
  [][op'.kind = "cancel" /\ ~Registered(op'.name) =>
       /\ ~raised'
       /\ debouncers' = debouncers
       /\ timers' = timers]_vars

\* C8 witness: a name that is not registered has just been cancelled (nothing
\* was ever removed by a cancel) while another debouncer is pending with its
\* timer.
C8_Witness ==
  /\ op.kind = "cancel" /\ ~Registered(op.name)
  /\ cancelled = {}
  /\ \E i \in 1..Len(debouncers) : \E t \in timers : t.id = debouncers[i].id

\* Commands whose case calls a method of the application element.
AppElementCommands ==
  CommandNames \ {"get-tabs-count", "activate-tab", "get-request-data", "popup-menu",
                  "process-external-file", "export-workspace"}

\* Number of leading arguments a command's case passes to its handler.
ForwardedCount(action) ==
  CASE action \in {"get-tabs-count", "process-external-file"} -> 1
    [] action \in {"activate-tab", "get-request-data"} -> 2
    [] OTHER -> 0

\* The handler a dispatch called is called by no other command.
OwnHandler(action, call) ==
  \A b \in CommandNames \ {action} : CommandTarget(b).handler # call.handler

C10_UnknownCommandWarns ==
  [][op'.kind = "command" /\ op'.name \notin CommandNames =>
       /\ out'.called = <<>>
       /\ out'.sent = <<>>
       /\ out'.warned
       /\ ~raised'
       /\ UNCHANGED lifecycleVars]_vars

\* C10 witness: an unknown command has been handled before the application
\* element exists, while a start-up run waits for the module import.
C10_Witness ==
  /\ op.kind = "command" /\ op.name \in UnknownCommands
  /\ AppIsNull
  /\ \E h \in 1..MaxInfo : pc[h] = "import"
  /\ out.warned /\ ~raised

\* The call a dispatch made is the one no other request action makes.
OwnRequestCall(action, args, call) ==
  \A b \in RequestActions \ {action} : RequestTarget(b, args) # call

\* C11: a request-action message with one of the six known actions calls one
\* handler, the one of that action, exactly once and does not throw; with any
\* other action string it calls no handler and throws an error whose message
\* ends with that action string.
C11_RequestActionRoutes ==
  [][op'.kind = "request-action" =>
       IF op'.name \in {"save", "save-as", "new-tab", "send-current",
                        "update-request", "close-tab"}
       THEN /\ Len(out'.called) = 1
            /\ OwnRequestCall(op'.name, op'.args, out'.called[1])
            /\ ~raised'
       ELSE /\ out'.called = <<>>
            /\ raised'
            /\ out'.error # NoError
            /\ out'.error[Len(out'.error)] = op'.name]_vars

\* The remote-call commands of the spec.
RemoteCallCommands == {"get-tabs-count", "activate-tab", "get-request-data"}

\* C12: a remote-call command that arrives with call id c as its first
\* trailing argument sends exactly one message back, whose arguments are
\* (id, isError, ...args) with id = c; every other command sends none.
C12_RemoteCallReplies ==
  [][op'.kind = "command" =>
       IF op'.name \in RemoteCallCommands
       THEN Len(op'.args) >= 1 =>
              /\ Len(out'.sent) = 1
              /\ Len(out'.sent[1].args) >= 2
              /\ out'.sent[1].args[1] = op'.args[1]
              /\ out'.sent[1].args[2] \in {"true", "false"}
       ELSE out'.sent = <<>>]_vars

\* The runs of _stateInfoHandler().
Runs == 1..MaxInfo

\* C13: when prefProxy.load() of initApp() fails with message m, that step
\* sends one fatal-error message carrying m, throws, and pushes no navigation
\* state and leaves the loader alone; the run has entered ConfigReceived only
\* and, being rejected, never enters another state.
C13_LoadFailureIsFatal ==
  /\ [][op'.kind = "load-done" /\ op'.name # "" =>
          /\ out'.sent = <<Msg("fatal-error", <<op'.name>>)>>
          /\ raised'
          /\ pc'[op'.id] = "failed"
          /\ stages'[op'.id] = <<"ConfigReceived">>
          /\ UNCHANGED <<navState, loader, loaderTimers>>]_vars
  /\ [][\A h \in Runs : pc[h] = "failed" =>
          pc'[h] = "failed" /\ stages'[h] = stages[h]]_vars

\* C13 witness: the preference load of the first run has just failed with
\* "cannot read" and the fatal-error message carrying it was sent.
C13_Witness ==
  /\ op = Op("load-done", 1, "cannot read")
  /\ out.sent = <<Msg("fatal-error", <<"cannot read">>)>>
  /\ raised
  /\ pc[1] = "failed"
  /\ loader = "shown"

\* A step in which a run enters PathResolved, that is, runs processInitialPath().
EntersPathResolved ==
  /\ op'.kind \in {"upgrade-load-done", "upgrade-done"}
  /\ stages'[op'.id] # stages[op'.id]

\* C14: processInitialPath() with the start path
\* file-protocol-action/google-drive/open/<id> calls the Drive handler with
\* action open and file id <id>, which asks the Drive bridge for file <id>, and
\* pushes no navigation state; with a path whose first part is not
\* file-protocol-action it pushes '#' followed by the path and calls no
\* protocol handler; with the empty path it does neither.
C14_StartPathDispatch ==
  [][EntersPathResolved =>
       LET p == initConfig.startPath IN
       /\ Len(p) = 4 /\ SubSeq(p, 1, 3) = <<"file-protocol-action", "google-drive", "open">> =>
            /\ out'.called = <<Call("handleGoogleDriveAction", <<"open", p[4]>>),
                               Call("driveBridge.getFile", <<p[4]>>)>>
            /\ navState' = navState
       /\ p # <<>> /\ p[1] # "file-protocol-action" =>
            /\ navState' = <<"#">> \o p
            /\ out'.called = <<>>
       /\ p = <<>> =>
            /\ navState' = navState
            /\ out'.called = <<>>]_vars

\* C14 witness: the first run has just processed the Drive start path: the
\* Drive bridge was asked for file abc123, nothing was pushed, and the run
\* waits for the file.
C14_Witness ==
  /\ op.kind = "upgrade-load-done" /\ op.id = 1
  /\ initConfig.startPath = <<"file-protocol-action", "google-drive", "open", "abc123">>
  /\ Call("driveBridge.getFile", <<"abc123">>) \in {out.called[i] : i \in 1..Len(out.called)}
  /\ navState = <<>>
  /\ pc[1] = "drive"

\* The lifecycle states a run enters after AwaitingConfig, in the order of the
\* awaits of _stateInfoHandler().
StateOrder == <<"ConfigReceived", "Built", "PathResolved", "Ready">>
Has(entered, state) == \E i \in 1..Len(entered) : entered[i] = state
IsPrefix(s, t) == Len(s) <= Len(t) /\ s = SubSeq(t, 1, Len(s))

\* C15: the states are entered in the order ConfigReceived, Built,
\* PathResolved, Ready with none skipped, and once ConfigReceived has been left
\* (some run has entered Built) no window-state-info message makes the
\* sequencer enter ConfigReceived again.
C15_StrictOrderNoReentry ==
  /\ [](\A h \in Runs : IsPrefix(stages[h], StateOrder))
  /\ [][(\E h \in Runs : Has(stages[h], "Built")) =>
          \A g \in Runs : stages[g] = <<>> => stages'[g] = <<>>]_vars

\* C16: a command or request-action message calls a handler only when the
\* start-up sequence has entered Ready.
C16_DispatchOnlyWhenReady ==
  [][op'.kind \in {"command", "request-action"} /\ out'.called # <<>> =>
       \E h \in Runs : Has(stages[h], "Ready")]_vars

\* C17: a run that is in Built (upgradeApp() is running) leaves it only by
\* entering PathResolved, whatever prefProxy.load() and inst.upgrade() settle
\* with.
C17_BuiltLeadsToPathResolved ==
  [][\A h \in Runs :
       pc[h] \in {"upLoad", "upgrade"} /\ pc'[h] \notin {"upLoad", "upgrade"} =>
         Has(stages'[h], "PathResolved")]_vars

\* C18: a failure of the theme load or of the Drive file fetch (no data,
\* unparsable data, a rejection) does not throw out of the start-up sequence
\* and does not end the run; after the Drive failure, the last step before
\* Ready, the run enters Ready and the loader is on its way out.
C18_BestEffortFailuresSwallowed ==
  /\ [][op'.kind = "theme-done" /\ op'.name = "failed" =>
          ~raised' /\ pc'[op'.id] # "failed"]_vars
  /\ [][op'.kind = "drive-done" /\ op'.name # "json" =>
          /\ ~raised'
          /\ pc'[op'.id] = "done"
          /\ Has(stages'[op'.id], "Ready")
          /\ loader' # "shown"]_vars

\* The timers of the debouncers of a name.
TimersOf(name) == {t \in timers : t.name = name}

\* C19 as stated: the debounce(name, ..) call a task makes while it runs
\* registers no Debouncer and starts no timer.
C19_ReentrantScheduleIsNoOp ==
  [][op'.kind = "fire-reschedule" =>
       /\ \A i \in 1..Len(debouncers') : debouncers'[i].name # op'.name
       /\ \A t \in timers' : t.name # op'.name]_vars

\* C19 amended: the entry of the name is removed before the task runs, so the
\* debounce(name, ..) call the task makes registers a new Debouncer of that
\* name, the only one, with a timer of its own that is due after the delay of
\* that call, counted from now; the task that runs was invoked once.
C19_ReentrantScheduleRegisters ==
  [][op'.kind = "fire-reschedule" =>
       LET c == Len(calls') IN
       /\ ~calls'[c].pending
       /\ Cardinality({i \in 1..Len(debouncers') : debouncers'[i].name = op'.name}) = 1
       /\ \E i \in 1..Len(debouncers') : debouncers'[i] = [name |-> op'.name, id |-> c]
       /\ {t \in timers' : t.name = op'.name} =
            {[id |-> c, name |-> op'.name, task |-> c,
              due |-> now + calls'[c].delay]}
       /\ invoked' = Append(invoked, [task |-> op'.id, at |-> now])]_vars

\* C19 witness: the task a rescheduling task registered while it ran has been
\* invoked in its turn.
C19_Witness ==
  \E i \in 1..Len(invoked) :
    /\ i > 1
    /\ calls[invoked[i].task].at = invoked[i - 1].at
    /\ calls[invoked[i].task].name = calls[invoked[i - 1].task].name
    /\ invoked[i].at > invoked[i - 1].at
    /\ op.kind = "fire"

\* C20: when the timer of the debouncer of a name fires, that name is
\* registered (the index found is not -1), the entry of that name is removed,
\* and the entries of all other names stay, in their order.
C20_FireRemovesOwnEntry ==
  [][op'.kind = "fire" =>
       /\ _debounceIndex(op'.name) # -1
       /\ debouncers' = SelectSeq(debouncers, LAMBDA d : d.name # op'.name)
       /\ Len(debouncers') = Len(debouncers) - 1]_vars

\* C20 witness: the timer of x has fired while y was registered before it in
\* the table, and y is still there.
C20_Witness ==
  /\ op.kind = "fire" /\ op.name = "x"
  /\ Len(debouncers) = 1 /\ debouncers[1].name = "y"
  /\ Len(calls) >= 2 /\ calls[1].name = "y" /\ calls[2].name = "x"
  /\ TimersOf("y") # {}

\* C21: whatever the number of window-state-info messages and the order in
\* which their runs are resumed, at most one application element is created
\* and attached to the document.
C21_AppElementCreatedOnce == appCount <= 1

\* C22: a complete(id, isError, args) call with no trailing argument whose id
\* has a PendingCall does not throw, removes the first PendingCall of that id
\* and no other, and settles the handle of that PendingCall and no other:
\* rejected when isError and resolved otherwise, with the empty list as value.
C22_EmptyReplySettles ==
  [][\A id \in Ids, isError \in BOOLEAN :
       id \in PendingIds /\ _ipcPromiseCallback(id, isError, <<>>) =>
         LET index == PromiseIndex(promises, id)
             h == promises[index + 1].h
         IN  /\ ~raised'
             /\ promises' = [i \in 1..(Len(promises) - 1) |->
                               IF i <= index THEN promises[i] ELSE promises[i + 1]]
             /\ handles'[h].state = (IF isError THEN "rejected" ELSE "resolved")
             /\ handles'[h].value = [kind |-> "list", items |-> <<>>]
             /\ handles'[h].nsettle = 1
             /\ \A g \in HandleIds \ {h} : handles'[g] = handles[g]]_vars

\* C22 witness: two calls were completed with no trailing argument, one
\* resolved and, just now, one rejected, each with the empty list as value,
\* and no call is pending.
C22_Witness ==
  /\ op.kind = "complete" /\ ~raised
  /\ promises = <<>>
  /\ \E g, h \in HandleIds :
       /\ handles[g].state = "resolved"
       /\ handles[g].value = [kind |-> "list", items |-> <<>>]
       /\ handles[h].id = op.id
       /\ handles[h].state = "rejected"
       /\ handles[h].value = [kind |-> "list", items |-> <<>>]
====
